---- MODULE Spec2Model ----
(***************************************************************************)
(* A model of the gocart plugin gp_alerts_to_db.py: the flattening of an   *)
(* alert's metadata document into one record (alertDict), the `alerts`     *)
(* table with its unique key, the `events` view and the CSV/text export.   *)
(***************************************************************************)
EXTENDS Integers, Sequences, FiniteSets, TLC

(***************************************************************************)
(* Python values.  Every value is a record [t, v]: t is the Python type    *)
(* and v the payload.  A str is carried in one of three forms, by what the *)
(* code does with it:                                                      *)
(*   "str"  an opaque text without whitespace,                             *)
(*   "tstr" a text of the shape of a timestamp: form "Z" is                *)
(*          YYYY-MM-DDTHH:MM:SSZ, form "fZ" is YYYY-MM-DDTHH:MM:SS.ffffffZ;*)
(*          sec is the instant in seconds, us the microseconds,            *)
(*   "wstr" a text given by its whitespace-separated tokens.               *)
(* A number is the rational v[1]/v[2].  A dict is the sequence of its      *)
(* <<key, value>> items in iteration order.                                *)
(***************************************************************************)
Str(s) == [t |-> "str", v |-> s]
Stamp(form, sec, us) == [t |-> "tstr", v |-> [form |-> form, sec |-> sec, us |-> us]]
Words(ws) == [t |-> "wstr", v |-> ws]
Num(p, q) == [t |-> "num", v |-> <<p, q>>]
Bool(b) == [t |-> "bool", v |-> b]
NoneVal == [t |-> "none", v |-> 0]
List(s) == [t |-> "list", v |-> s]
Dict(items) == [t |-> "dict", v |-> items]

IsDict(v) == v.t = "dict"
IsList(v) == v.t = "list"
IsStr(v) == v.t \in {"str", "tstr", "wstr"}

\* Python truthiness of a value.
Truthy(v) ==
    CASE v.t = "none" -> FALSE
      [] v.t = "bool" -> v.v
      [] v.t = "num" -> v.v[1] # 0
      [] v.t = "str" -> v.v # ""
      [] v.t = "tstr" -> TRUE
      [] v.t = "wstr" -> Len(v.v) > 0
      [] v.t = "list" -> Len(v.v) > 0
      [] v.t = "dict" -> Len(v.v) > 0

\* `k in d` and d[k] for a dict given by its items.
Has(items, k) == \E i \in 1..Len(items) : items[i][1] = k
Get(items, k) == items[CHOOSE i \in 1..Len(items) : items[i][1] = k][2]

\* alertDict: a mapping from key to value; assignment and pop.
EmptyDict == [k \in {} |-> NoneVal]
Put(d, k, v) == [x \in DOMAIN d \cup {k} |-> IF x = k THEN v ELSE d[x]]
Pop(d, k) == [x \in DOMAIN d \ {k} |-> d[x]]

\* str.lower() on the field names of the model: the names that hold an
\* upper-case letter, each with its lower-case form; any other name is
\* its own lower-case form.
LowerTable ==
    [k \in {"CREATOR", "DATE-OBS", "DISTMEAN", "DistMean", "DISTSTD",
            "LOGBCI", "LOGBSN", "MJD-OBS", "OBJECT", "BNS", "Terrestrial",
            "HasNS", "HasRemnant", "FAR", "Area90", "Time"} |->
        CASE k = "CREATOR" -> "creator"
          [] k = "DATE-OBS" -> "date-obs"
          [] k \in {"DISTMEAN", "DistMean"} -> "distmean"
          [] k = "DISTSTD" -> "diststd"
          [] k = "LOGBCI" -> "logbci"
          [] k = "LOGBSN" -> "logbsn"
          [] k = "MJD-OBS" -> "mjd-obs"
          [] k = "OBJECT" -> "object"
          [] k = "BNS" -> "bns"
          [] k = "Terrestrial" -> "terrestrial"
          [] k = "HasNS" -> "hasns"
          [] k = "HasRemnant" -> "hasremnant"
          [] k = "FAR" -> "far"
          [] k = "Area90" -> "area90"
          [] k = "Time" -> "time"]
Lower(k) == IF k \in DOMAIN LowerTable THEN LowerTable[k] ELSE k

(***************************************************************************)
(* plugin, lines 66-94: bundle the alert data together.                    *)
(***************************************************************************)
\* Every field stored under one literal key.
CopyKeyLiteral(mode, k) == "k"
\* The key a field is stored under: k.lower(), f"class_{k}".lower(),
\* f"prop_{k}".lower() (the prefix is lower-case already).
CopyKey(mode, k) ==
    CASE mode = "classification" -> "class_" \o Lower(k)
      [] mode = "properties" -> "prop_" \o Lower(k)
      [] OTHER -> Lower(k)

allowList == {"CREATOR", "DATE-OBS", "DISTMEAN", "DISTSTD", "LOGBCI", "LOGBSN", "MJD-OBS"}

\* The case-insensitive reading of the allow-list test.
AdmitHeaderAnyCase(k, v) == ~IsDict(v) /\ \E a \in allowList : Lower(a) = Lower(k)
\* line 93: not isinstance(v, dict) and k in allowList
AdmitHeader(k, v) == ~IsDict(v) /\ k \in allowList

\* line 73: not isinstance(v, dict) and not isinstance(v, list)
AdmitEvent(v) == ~IsDict(v) /\ ~IsList(v)

\* lines 69, 77, 81, 85: not isinstance(v, dict)
AdmitNotDict(v) == ~IsDict(v)

Admit(mode, k, v) ==
    CASE mode = "event" -> AdmitEvent(v)
      [] mode = "HEADER" -> AdmitHeader(k, v)
      [] OTHER -> AdmitNotDict(v)

\* One `for k, v in section.items()` loop over the items in their order.
RECURSIVE CopyItems(_, _, _)
CopyItems(items, d, mode) ==
    IF items = <<>> THEN d
    ELSE LET k == Head(items)[1]
             v == Head(items)[2]
         IN CopyItems(Tail(items),
                      IF Admit(mode, k, v) THEN Put(d, CopyKey(mode, k), v) ELSE d,
                      mode)

\* `k in d and d[k]` followed by d[k].items(): the items of a sub-section
\* that is present and truthy, no items otherwise.
SubItems(items, k) ==
    IF Has(items, k) /\ Truthy(Get(items, k)) THEN Get(items, k).v ELSE <<>>

\* lines 68-82: ALERT, ALERT.event, classification, properties.
BundleAlert(meta) ==
    LET alert == Get(meta, "ALERT").v
        ev == SubItems(alert, "event")
        d1 == CopyItems(alert, EmptyDict, "ALERT")
        d2 == CopyItems(ev, d1, "event")
        d3 == CopyItems(SubItems(ev, "classification"), d2, "classification")
    IN CopyItems(SubItems(ev, "properties"), d3, "properties")

\* str.split(): the whitespace-separated tokens of a str.
Tokens(v) ==
    CASE v.t = "wstr" -> v.v
      [] v.t = "str" -> IF v.v = "" THEN <<>> ELSE <<v.v>>
      [] OTHER -> <<"timestamp">>

\* The exception lines 87-88 raise on EXTRA, "none" when they raise none.
CentreError(extra) ==
    IF ~Has(extra, "central coordinate") THEN "KeyError"
    ELSE LET cc == Get(extra, "central coordinate")
         IN IF ~IsDict(cc) THEN "TypeError"
            ELSE IF ~Has(cc.v, "equatorial") THEN "KeyError"
            ELSE LET eq == Get(cc.v, "equatorial")
                 IN IF ~IsStr(eq) THEN "AttributeError"
                    ELSE IF Len(Tokens(eq)) < 2 THEN "IndexError"
                    ELSE "none"

\* EXTRA with the centre guarded: a missing sub-field is skipped.
BundleExtraGuarded(meta, d) ==
    LET extra == SubItems(meta, "EXTRA")
        d1 == CopyItems(extra, d, "EXTRA")
    IN IF extra = <<>> \/ CentreError(extra) # "none" THEN [d |-> d1, err |-> "none"]
       ELSE LET tk == Tokens(Get(Get(extra, "central coordinate").v, "equatorial"))
            IN [d |-> Put(Put(d1, "ra_centre", Str(tk[1])), "dec_centre", Str(tk[2])),
                err |-> "none"]
\* lines 83-88: EXTRA and the centre of the map.
BundleExtra(meta, d) ==
    LET extra == SubItems(meta, "EXTRA")
        d1 == CopyItems(extra, d, "EXTRA")
    IN IF extra = <<>> THEN [d |-> d, err |-> "none"]
       ELSE IF CentreError(extra) # "none" THEN [d |-> EmptyDict, err |-> CentreError(extra)]
       ELSE LET tk == Tokens(Get(Get(extra, "central coordinate").v, "equatorial"))
            IN [d |-> Put(Put(d1, "ra_centre", Str(tk[1])), "dec_centre", Str(tk[2])),
                err |-> "none"]

\* lines 90-94: the allow-listed HEADER fields.
BundleHeader(meta, d) == CopyItems(SubItems(meta, "HEADER"), d, "HEADER")

(***************************************************************************)
(* plugin, lines 95-119: cleaning, and the map file.                       *)
(***************************************************************************)
SecondsPerDay == 86400

\* float(v): the exception it raises, "none" when it raises none.  No text
\* of the model reads as a number.
FloatError(v) ==
    CASE v.t \in {"num", "bool"} -> "none"
      [] IsStr(v) -> "ValueError"
      [] OTHER -> "TypeError"
\* The number v[1]/v[2] that float(v) is the double of.
FloatOf(v) == IF v.t = "bool" THEN <<IF v.v THEN 1 ELSE 0, 1>> ELSE v.v

(***************************************************************************)
(* IEEE 754 doubles, for line 98.  A natural number of any size is the     *)
(* sequence of its binary digits, the most significant first, none for 0.  *)
(* An operator evaluates an argument once where it binds it as the element *)
(* of a one-element set.                                                   *)
(***************************************************************************)
RECURSIVE BitsOf(_)
BitsOf(k) == IF k = 0 THEN <<>> ELSE Append(BitsOf(k \div 2), k % 2)
RECURSIVE IntOf(_)
IntOf(b) == IF b = <<>> THEN 0 ELSE 2 * IntOf(SubSeq(b, 1, Len(b) - 1)) + b[Len(b)]
Trim(b) ==
    IF \A i \in 1..Len(b) : b[i] = 0 THEN <<>>
    ELSE SubSeq(b, CHOOSE i \in 1..Len(b) : b[i] = 1 /\ \A j \in 1..(i - 1) : b[j] = 0, Len(b))
Zeros(k) == [i \in 1..k |-> 0]
ShiftLeft(b, k) == IF b = <<>> THEN <<>> ELSE b \o Zeros(k)
PadTo(b, k) == Zeros(k - Len(b)) \o b
BitsLess(a, b) ==
    IF Len(a) # Len(b) THEN Len(a) < Len(b)
    ELSE \E i \in 1..Len(a) : a[i] < b[i] /\ \A j \in 1..(i - 1) : a[j] = b[j]

\* The steps lo..hi of a digit-by-digit computation on a and b, from the
\* state st, by halves.
RECURSIVE DigitFold(_, _, _, _, _, _)
BitsAdd(a, b) ==
    LET k == IF Len(a) > Len(b) THEN Len(a) ELSE Len(b)
    IN CHOOSE sum \in {IF out.c = 1 THEN <<1>> \o out.d ELSE out.d :
                          out \in {DigitFold("add", pa, pb, [d |-> <<>>, c |-> 0], 1, k) :
                                      pa \in {PadTo(a, k)}, pb \in {PadTo(b, k)}}} : TRUE
BitsSub(a, b) ==
    CHOOSE dif \in {Trim(DigitFold("sub", a, pb, [d |-> <<>>, c |-> 0], 1, Len(a)).d) :
                       pb \in {PadTo(b, Len(a))}} : TRUE
\* The k-th step:
\*   "add", "sub"  the k-th digit from the end of a + b, of a - b, with the
\*                 carry or the borrow c, a and b of one length;
\*   "div"         the k-th digit of a brought down in the long division
\*                 by b, with the quotient q and the remainder r so far.
DigitStep(kind, a, b, st, k) ==
    CASE kind = "add" ->
           [d |-> <<(a[Len(a) + 1 - k] + b[Len(a) + 1 - k] + st.c) % 2>> \o st.d,
            c |-> (a[Len(a) + 1 - k] + b[Len(a) + 1 - k] + st.c) \div 2]
      [] kind = "sub" ->
           [d |-> <<(a[Len(a) + 1 - k] - b[Len(a) + 1 - k] - st.c) % 2>> \o st.d,
            c |-> IF a[Len(a) + 1 - k] - b[Len(a) + 1 - k] - st.c < 0 THEN 1 ELSE 0]
      [] kind = "div" ->
           CHOOSE out \in {IF BitsLess(r2, b) THEN [q |-> Append(st.q, 0), r |-> r2]
                           ELSE [q |-> Append(st.q, 1), r |-> BitsSub(r2, b)] :
                              r2 \in {IF st.r = <<>> /\ a[k] = 0 THEN <<>>
                                      ELSE Append(st.r, a[k])}} : TRUE
DigitFold(kind, a, b, st, lo, hi) ==
    IF lo > hi THEN st
    ELSE IF lo = hi THEN DigitStep(kind, a, b, st, lo)
    ELSE CHOOSE out \in {DigitFold(kind, a, b, left, (lo + hi) \div 2 + 1, hi) :
                            left \in {DigitFold(kind, a, b, st, lo, (lo + hi) \div 2)}} : TRUE
RECURSIVE BitsTimes(_, _)
BitsTimes(a, k) ==
    IF k = 0 THEN <<>>
    ELSE CHOOSE out \in {IF k % 2 = 1 THEN BitsAdd(ShiftLeft(h, 1), a) ELSE ShiftLeft(h, 1) :
                            h \in {BitsTimes(a, k \div 2)}} : TRUE
\* The quotient and the remainder of a by d.
BitsDiv(a, d) ==
    CHOOSE qr \in {[q |-> Trim(out.q), r |-> out.r] :
                      out \in {DigitFold("div", a, d, [q |-> <<>>, r |-> <<>>], 1, Len(a))}} : TRUE

\* A double is [m, e]: the 53 digits m of its significand and its
\* exponent e, the value m * 2^e (no zero, no subnormal, no infinity).
\* The 53 digits nearest the quotient q of 55 or 56 digits with the
\* remainder r, ties to even; x is the exponent of q's last digit.
RoundDigits(q, r, x) ==
    CHOOSE out \in
        {IF Len(m) = 54 THEN [m |-> SubSeq(m, 1, 53), e |-> x + Len(q) - 52]
         ELSE [m |-> m, e |-> x + Len(q) - 53] :
            m \in {IF q[54] = 1 /\ (r # <<>> \/ q[53] = 1 \/ \E i \in 55..Len(q) : q[i] = 1)
                   THEN BitsAdd(SubSeq(q, 1, 53), <<1>>)
                   ELSE SubSeq(q, 1, 53)}} : TRUE
\* The double nearest (a / d) * 2^x: a or d is shifted by s places so
\* that the quotient holds 55 or 56 digits.
RoundQuot(a, d, x) ==
    CHOOSE out \in
        {RoundDigits(t.qr.q, t.qr.r, x - t.s) :
            t \in {[s |-> s, qr |-> BitsDiv(IF s >= 0 THEN ShiftLeft(a, s) ELSE a,
                                            IF s < 0 THEN ShiftLeft(d, 0 - s) ELSE d)] :
                      s \in {55 + Len(d) - Len(a)}}} : TRUE
\* The double of p / q with p > 0 (float(v)), x * k and 1 / x.
DoubleOf(p, q) == CHOOSE x \in {RoundQuot(a, d, 0) : a \in {BitsOf(p)}, d \in {BitsOf(q)}} : TRUE
DoubleTimes(x, k) == CHOOSE y \in {RoundQuot(a, <<1>>, x.e) : a \in {BitsTimes(x.m, k)}} : TRUE
DoubleInverse(x) == RoundQuot(<<1>>, x.m, 0 - x.e)

\* line 98: 1 / (x * 60. * 60. * 24.), the products from left to right.
PerDay(x) ==
    CHOOSE y \in
        {DoubleInverse(x3) :
            x3 \in {DoubleTimes(x2, 24) :
               x2 \in {DoubleTimes(x1, 60) : x1 \in {DoubleTimes(x, 60)}}}} : TRUE

\* line 99: float(f"{x:0.2f}"), the hundredths nearest the double x, ties
\* to even, as the number (hundredths)/100.
Round2(x) ==
    CHOOSE y \in
        {Num(IF x.e >= 0 THEN IntOf(ShiftLeft(m100, x.e))
             ELSE LET k == 0 - x.e
                      P == IF Len(m100) > k THEN m100 ELSE PadTo(m100, k + 1)
                      len == Len(P)
                      h0 == IntOf(Trim(SubSeq(P, 1, len - k)))
                  IN IF P[len - k + 1] = 1
                        /\ (h0 % 2 = 1 \/ \E i \in (len - k + 2)..len : P[i] = 1)
                     THEN h0 + 1 ELSE h0, 100) :
            m100 \in {BitsTimes(x.m, 100)}} : TRUE

\* lines 98-99 on far = f[1]/f[2].
FarYearsOf(f) == CHOOSE y \in {Round2(PerDay(x)) : x \in {DoubleOf(f[1], f[2])}} : TRUE
\* The values of far in the alerts of the model, computed once.
FarYearsTable ==
    [f \in {<<1, 10 * SecondsPerDay>>, <<1, SecondsPerDay>>, <<1, 10800>>} |-> FarYearsOf(f)]
FarYears(f) == IF f \in DOMAIN FarYearsTable THEN FarYearsTable[f] ELSE FarYearsOf(f)

\* lines 96-99: far becomes far_hz, and far_years = 1/(far_hz*60*60*24).
CleanFar(d) ==
    IF "far" \notin DOMAIN d THEN [d |-> d, err |-> "none"]
    ELSE LET far == d["far"]
             d1 == Put(Pop(d, "far"), "far_hz", far)
         IN IF FloatError(far) # "none" THEN [d |-> EmptyDict, err |-> FloatError(far)]
            ELSE IF FloatOf(far)[1] = 0 THEN [d |-> EmptyDict, err |-> "ZeroDivisionError"]
            ELSE [d |-> Put(d1, "far_years", FarYears(FloatOf(far))), err |-> "none"]

\* datetime.strptime(v, format): it parses the texts of the format's form.
Parses(v, form) == v.t = "tstr" /\ v.v.form = form

\* timedelta.total_seconds() of t1 - t2, rounded down to whole seconds:
\* t1 holds no microseconds, so the difference of the seconds less one
\* when t2 holds some.
DeltaFloor(t1, t2) == (t1.v.sec - t2.v.sec) - (IF t2.v.us > 0 THEN 1 ELSE 0)

\* The magnitude of the difference in whole seconds: abs(total_seconds()).
DeltaAbsSeconds(t1, t2) ==
    IF DeltaFloor(t1, t2) >= 0 THEN DeltaFloor(t1, t2) ELSE t2.v.sec - t1.v.sec
\* line 106: timedelta.seconds, the seconds field of the normalised
\* difference (days, 0 <= seconds < 86400, microseconds).
DeltaSeconds(t1, t2) == DeltaFloor(t1, t2) % SecondsPerDay

\* lines 100-109: time_created becomes alert_time; alert_delta_sec.
CleanTime(d) ==
    IF "time_created" \notin DOMAIN d THEN d
    ELSE LET d1 == Put(Pop(d, "time_created"), "alert_time", d["time_created"])
         IN IF "time" \notin DOMAIN d1 THEN d1
            ELSE LET d2 == IF Parses(d1["alert_time"], "Z") /\ Parses(d1["time"], "fZ")
                           THEN Put(d1, "alert_delta_sec",
                                    Num(DeltaSeconds(d1["alert_time"], d1["time"]), 1))
                           ELSE d1
                 IN Pop(d2, "time")

\* lines 111-115: significant becomes 1 or 0.
CleanSignificant(d) ==
    IF "significant" \notin DOMAIN d THEN d
    ELSE Put(d, "significant", IF Truthy(d["significant"]) THEN Num(1, 1) ELSE Num(0, 1))

\* lines 117-119: a file is [root, ext], os.path.splitext of its path;
\* the last file with the extension .fits is the map.
RECURSIVE SetMap(_, _)
SetMap(fl, d) ==
    IF fl = <<>> THEN d
    ELSE SetMap(Tail(fl),
                IF Head(fl).ext = ".fits"
                THEN Put(d, "map", Str(Head(fl).root \o Head(fl).ext))
                ELSE d)

\* lines 66-119: alertDict, or the exception that ends the call.
Bundle(meta, fl) ==
    LET r1 == BundleExtra(meta, BundleAlert(meta))
    IN IF r1.err # "none" THEN r1
       ELSE LET r2 == CleanFar(BundleHeader(meta, r1.d))
            IN IF r2.err # "none" THEN r2
               ELSE [d |-> SetMap(fl, CleanSignificant(CleanTime(r2.d))), err |-> "none"]

(***************************************************************************)
(* The table `alerts` (lines 121-161) and the insert (lines 220-231).      *)
(***************************************************************************)
NULL == NoneVal

\* The columns of `alerts`, lines 122-151.  dateAdded and dateLastModified,
\* which the server sets from its clock, are left out.
Columns ==
    {"superevent_id", "significant", "alert_type", "alert_time", "alert_delta_sec",
     "date_obs", "mjd_obs", "far_hz", "far_years", "distmean", "diststd",
     "class_bbh", "class_bns", "class_nsbh", "class_terrestrial",
     "prop_hasns", "prop_hasremnant", "prop_hasmassgap",
     "area10", "area50", "area90", "creator", "ra_centre", "dec_centre",
     "group", "logbci", "logbsn", "pipeline", "search", "map"}

\* line 154: UNIQUE KEY (superevent_id, alert_time, alert_type)
KeyColumns == {"superevent_id", "alert_time", "alert_type"}

\* The column a key of alertDict is stored in (lines 127-128: the columns
\* date_obs and mjd_obs hold the keywords date-obs and mjd-obs).
ColumnOf(k) ==
    CASE k = "date-obs" -> "date_obs"
      [] k = "mjd-obs" -> "mjd_obs"
      [] OTHER -> k

\* The row of a record: its value in each column, NULL (the column's
\* default) where the record holds none.
RowOf(d) ==
    [c \in Columns |->
        IF \E k \in DOMAIN d : ColumnOf(k) = c
        THEN d[CHOOSE k \in DOMAIN d : ColumnOf(k) = c]
        ELSE NULL]

\* Two rows the unique key lets not coexist: a NULL equals nothing.
SameKey(r1, r2) == \A c \in KeyColumns : r1[c] # NULL /\ r1[c] = r2[c]

RECURSIVE Without(_, _)
Without(table, row) ==
    IF table = <<>> THEN <<>>
    ELSE IF SameKey(Head(table), row) THEN Without(Tail(table), row)
    ELSE <<Head(table)>> \o Without(Tail(table), row)

\* An insert that updates the row of the same key with the values the
\* new record holds and keeps the others.
RECURSIVE InsertMerge(_, _)
InsertMerge(table, row) ==
    IF table = <<>> THEN <<row>>
    ELSE IF SameKey(Head(table), row)
         THEN <<[c \in Columns |-> IF row[c] # NULL THEN row[c] ELSE Head(table)[c]]>>
              \o Tail(table)
         ELSE <<Head(table)>> \o InsertMerge(Tail(table), row)
\* lines 222-231, replace=True under the unique key of line 154: the row
\* of the same key is replaced by the new one.
InsertReplace(table, row) == Without(table, row) \o <<row>>

(***************************************************************************)
(* The view `events`, lines 163-218.                                       *)
(***************************************************************************)
\* The instant of a datetime.
At(r) == r["alert_time"].v.sec

\* lines 190-194: MAX(alert_time) GROUP BY superevent_id, and lines
\* 195-197: the rows of that time.
LatestOfAll(table) ==
    {i \in 1..Len(table) :
        /\ table[i]["alert_time"] # NULL
        /\ \A j \in 1..Len(table) :
              (table[j]["superevent_id"] = table[i]["superevent_id"]
               /\ table[j]["alert_time"] # NULL) => At(table[j]) <= At(table[i])}

\* The same with no WHERE clause in the grouped select.
LatestOfAny(table) == LatestOfAll(table)
\* lines 201-210: MAX(alert_time) over the rows WHERE alert_type !=
\* 'RETRACTION', and the rows of that superevent and time.
LatestNonRetraction(table) ==
    {i \in 1..Len(table) :
        /\ table[i]["alert_time"] # NULL
        /\ \E j \in 1..Len(table) :
              /\ table[j]["superevent_id"] = table[i]["superevent_id"]
              /\ table[j]["alert_type"] # NULL
              /\ table[j]["alert_type"] # Str("RETRACTION")
              /\ table[j]["alert_time"] # NULL
              /\ At(table[j]) = At(table[i])
        /\ \A j \in 1..Len(table) :
              (/\ table[j]["superevent_id"] = table[i]["superevent_id"]
               /\ table[j]["alert_type"] # NULL
               /\ table[j]["alert_type"] # Str("RETRACTION")
               /\ table[j]["alert_time"] # NULL) => At(table[j]) <= At(table[i])}

\* lines 170-185: the columns the view takes from b.
FromB ==
    {"significant", "date_obs", "mjd_obs", "far_hz", "far_years", "distmean", "diststd",
     "class_bbh", "class_bns", "class_nsbh", "class_terrestrial",
     "prop_hasns", "prop_hasremnant", "prop_hasmassgap", "area10", "area50", "area90"}
ViewColumns == {"superevent_id", "latest_alert", "alert_time", "alert_delta_sec"} \cup FromB

\* lines 164-185: the row of the view for a row a and a row b.
ViewRow(a, b) ==
    [c \in ViewColumns |->
        CASE c = "latest_alert" -> a["alert_type"]
          [] c \in {"superevent_id", "alert_time", "alert_delta_sec"} -> a[c]
          [] OTHER -> b[c]]

\* lines 211-212: the join of a and b on superevent_id, as the pairs of
\* row numbers <<a, b>>, one row of the view each.
EventPairs(table) ==
    {p \in LatestOfAll(table) \X LatestNonRetraction(table) :
        table[p[1]]["superevent_id"] = table[p[2]]["superevent_id"]}

\* lines 164-185: the row of the view of a pair.
EventRow(table, p) == ViewRow(table[p[1]], table[p[2]])

\* The orders in which a statement can return the rows it does not order:
\* every arrangement of them.
RECURSIVE Arrangements(_)
Arrangements(S) ==
    IF S = {} THEN {<<>>}
    ELSE UNION {{<<x>> \o s : s \in Arrangements(S \ {x})} : x \in S}

(***************************************************************************)
(* export_alerts_table_to_csv, lines 263-351.                              *)
(***************************************************************************)
download_dir == "/lvk"

\* The tails of the superevent ids of the model: S230518h is a superevent,
\* MS230518a a mock one.
IdTails == {"230518h", "S230518a"}
\* superevent_id like "{prefix}%"
Like(v, prefix) == v # NULL /\ \E tl \in IdTails : v = Str(prefix \o tl)

\* lines 268-291: the passes of the two loops, in their order.
Passes ==
    <<[ttype |-> "parse_mock_events", ddir |-> "mockevents", prefix |-> "M",
       sig |-> "all", sigDir |-> ""],
      [ttype |-> "parse_mock_events", ddir |-> "mockevents", prefix |-> "M",
       sig |-> "low", sigDir |-> "/_low_significance"],
      [ttype |-> "parse_mock_events", ddir |-> "mockevents", prefix |-> "M",
       sig |-> "high", sigDir |-> "/_high_significance"],
      [ttype |-> "parse_real_events", ddir |-> "superevents", prefix |-> "S",
       sig |-> "all", sigDir |-> ""],
      [ttype |-> "parse_real_events", ddir |-> "superevents", prefix |-> "S",
       sig |-> "low", sigDir |-> "/_low_significance"],
      [ttype |-> "parse_real_events", ddir |-> "superevents", prefix |-> "S",
       sig |-> "high", sigDir |-> "/_high_significance"]>>

\* line 293: the directory of a pass.
DirOf(q) == download_dir \o "/" \o q.ddir \o q.sigDir
\* lines 297-298, 321, 346: the four files of a pass.
AlertsCsv(q) == DirOf(q) \o "/alerts.csv"
AlertsTxt(q) == DirOf(q) \o "/alerts.txt"
EventsCsv(q) == DirOf(q) \o "/events.csv"
EventsTxt(q) == DirOf(q) \o "/events.txt"
FilesOf(q) == {AlertsCsv(q), AlertsTxt(q), EventsCsv(q), EventsTxt(q)}

\* lines 283-291: sigSql, as the test it puts on a row.
SigSql(q, r) ==
    CASE q.sig = "all" -> TRUE
      [] q.sig = "high" -> r["significant"] = Num(1, 1)
      [] q.sig = "low" -> r["significant"] = Num(0, 1)

\* lines 301-309: select * from events where superevent_id like
\* "{prefix}%" {sigSql}, with no ORDER BY: the results it can return.
EventsQuery(table, q) ==
    LET P == {p \in EventPairs(table) :
                 /\ Like(EventRow(table, p)["superevent_id"], q.prefix)
                 /\ SigSql(q, EventRow(table, p))}
    IN {[i \in 1..Len(s) |-> EventRow(table, s[i])] : s \in Arrangements(P)}

\* lines 326-334: select * from alerts where superevent_id like
\* "{prefix}%" order by alert_time desc: the results it can return, rows
\* of one alert_time in any order.
AlertsQuery(table, q) ==
    LET I == {i \in 1..Len(table) : Like(table[i]["superevent_id"], q.prefix)}
    IN {[i \in 1..Len(s) |-> table[s[i]]] :
           s \in {t \in Arrangements(I) :
                     \A j \in 1..(Len(t) - 1) : At(table[t[j]]) >= At(table[t[j + 1]])}}

\* A text: the line "# Exported <now>", of one length whatever now is, and
\* the rows as csv or as a table (fmt).
Rendered(fmt, rows) == [fmt |-> fmt, rows |-> rows]
\* What a file holds: the texts written to it from its start since it was
\* last emptied, the last one first.  The file holds the bytes of its
\* first text and, beyond the length of every text before it, those of
\* each later one; <<>> is the file that holds no byte.
\* A text written from the start of a file that holds old.  Two texts of
\* the same rows in the same form are of one length: nothing of the older
\* one stays.
Over(text, old) ==
    IF old # <<>> /\ Head(old) = text THEN old ELSE <<text>> \o old


\* lines 268-295 between two statements: the first pass from the i-th on
\* whose type is enabled in the settings S, Len(Passes) + 1 when there is
\* none.
RECURSIVE NextPass(_, _)
NextPass(i, S) ==
    IF i > Len(Passes) THEN i
    ELSE IF S[Passes[i].ttype] THEN i
    ELSE NextPass(i + 1, S)

(***************************************************************************)
(* gp_symlink_events_to_significance_folders.plugin, lines 31-78.  A path  *)
(* is the sequence of its components, "/lvk/superevents/S230518h/" is      *)
(* <<"lvk", "superevents", "S230518h", "">>.                               *)
(***************************************************************************)
RECURSIVE PathOf(_)
PathOf(c) == IF c = <<>> THEN "" ELSE PathOf(SubSeq(c, 1, Len(c) - 1)) \o "/" \o c[Len(c)]
\* lines 51-52
StripSlash(c) == IF c[Len(c)] = "" THEN SubSeq(c, 1, Len(c) - 1) ELSE c
\* os.path.dirname and os.path.basename of a path without a final slash.
Dirname(c) == SubSeq(c, 1, Len(c) - 1)
Basename(c) == c[Len(c)]
\* lines 54-59, of the alertDir without its final slash.
EventDir(dir) == PathOf(Dirname(dir))
ParentDir(dir) == PathOf(Dirname(Dirname(dir)))
LowDir(dir) == ParentDir(dir) \o "/_low_significance"
HighDir(dir) == ParentDir(dir) \o "/_high_significance"
\* lines 66-71: dest, "" where the alert holds no event or the event no
\* significance.  ALERT is a dict in every document.
Dest(meta, dir) ==
    LET alert == Get(meta, "ALERT").v
    IN IF Has(alert, "event") /\ Truthy(Get(alert, "event"))
          /\ Has(Get(alert, "event").v, "significant")
       THEN (IF Truthy(Get(Get(alert, "event").v, "significant"))
             THEN HighDir(dir) ELSE LowDir(dir)) \o "/" \o Basename(Dirname(dir))
       ELSE ""
\* os.path.exists: a directory, or a link to a directory that exists.
PathExists(path, D, K) == path \in D \/ (path \in DOMAIN K /\ K[path] \in D)
\* A directory or a link, whatever it leads to: mkdir and symlink fail on
\* it.
Entry(path, D, K) == path \in D \/ path \in DOMAIN K

\* line 293: os.path.exists of the directory of a pass.
PassDirAssumed(q, D, K) == TRUE
PassDirExists(q, D, K) == PathExists(DirOf(q), D, K)

(***************************************************************************)
(* The state.  The framework runs the two plugins on an alert; a second    *)
(* invocation can run at the same time on the same database and the same   *)
(* download directory, so a call is one of the processes of Procs and a    *)
(* step is one statement on the database or on the file system, together   *)
(* with the local computation that leads to the next one.                  *)
(*  Of each process:                                                       *)
(*   pc           the statement it executes next: "idle" (never called),   *)
(*                "bundle" (lines 66-119), "create_table" (121-161),       *)
(*                "create_view" (163-218), "insert" (220-231), "exists"    *)
(*                (293), "read_events" (301-309), "read_alerts" (326-334), *)
(*                and for each file F of events_csv (318-320), events_txt  *)
(*                (321-323), alerts_csv (343-345), alerts_txt (346-348)    *)
(*                "F_open", "F_write", "F_close"; of the other plugin, for *)
(*                D of ls (60-61) and hs (62-63), "D_exists" and, inside   *)
(*                os.makedirs, "D_head_exists", "D_mkdir_head", "D_mkdir", *)
(*                then "dest_exists" (74), "symlink" (75); "returned",     *)
(*                "raised"                                                 *)
(*   alertMeta, alertFiles, alertDir   the arguments of the call           *)
(*   alertDict    the record bundled in the call                           *)
(*   err          the exception that ended the call, or "none"             *)
(*   pass         the pass of the export's loops it is in, 0 outside       *)
(*   rows         the result of the last query of the pass                 *)
(*  The arguments and the locals are kept up to the last statement that    *)
(*  reads them; a call that raised keeps its arguments.                    *)
(*  Shared:                                                                *)
(*   alerts       the rows of the table `alerts`                           *)
(*   tableExists, viewExists  the table and the view are created           *)
(*   executed     the statements sent to the database, counted             *)
(*   dirs         the directories that exist under download_dir            *)
(*   links        the symbolic links, each with its target                 *)
(*   settings     settings['lvk']                                          *)
(*   files        the files written, each with its content                 *)
(*   n            the calls of the plugins so far                          *)
(***************************************************************************)
Procs == {1, 2}

VARIABLES alertMeta, alertFiles, alertDir, alertDict, err, pc, pass, rows,
          alerts, tableExists, viewExists, executed, dirs, links, settings, files, n

vars == <<alertMeta, alertFiles, alertDir, alertDict, err, pc, pass, rows,
          alerts, tableExists, viewExists, executed, dirs, links, settings, files, n>>

dbVars == <<alerts, tableExists, viewExists, executed>>
fsVars == <<dirs, links, files>>
args == <<alertMeta, alertFiles, alertDir>>
locals == <<alertDict, err, pass, rows>>


\* No call has touched the database or written under the download
\* directory.
Untouched ==
    /\ alerts = <<>>
    /\ tableExists = FALSE
    /\ viewExists = FALSE
    /\ executed = [table |-> 0, view |-> 0, insert |-> 0, read |-> 0]
    /\ files = EmptyDict
    /\ links = EmptyDict
    /\ n = 0

NoCall ==
    /\ alertMeta = [p \in Procs |-> <<>>]
    /\ alertFiles = [p \in Procs |-> <<>>]
    /\ alertDir = [p \in Procs |-> <<>>]
    /\ alertDict = [p \in Procs |-> EmptyDict]
    /\ err = [p \in Procs |-> "none"]
    /\ pc = [p \in Procs |-> "idle"]
    /\ pass = [p \in Procs |-> 0]
    /\ rows = [p \in Procs |-> <<>>]
    /\ Untouched

Goto(p, label) == pc' = [pc EXCEPT ![p] = label]
\* The arguments and the locals of p are read no more.
Drop(p) ==
    /\ alertMeta' = [alertMeta EXCEPT ![p] = <<>>]
    /\ alertFiles' = [alertFiles EXCEPT ![p] = <<>>]
    /\ alertDir' = [alertDir EXCEPT ![p] = <<>>]
    /\ alertDict' = [alertDict EXCEPT ![p] = EmptyDict]
    /\ err' = [err EXCEPT ![p] = "none"]
    /\ pass' = [pass EXCEPT ![p] = 0]
    /\ rows' = [rows EXCEPT ![p] = <<>>]
Return(p) == Goto(p, "returned") /\ Drop(p)
Raise(p, e) ==
    /\ Goto(p, "raised")
    /\ err' = [err EXCEPT ![p] = e]
    /\ alertDict' = [alertDict EXCEPT ![p] = EmptyDict]
    /\ pass' = [pass EXCEPT ![p] = 0]
    /\ rows' = [rows EXCEPT ![p] = <<>>]
    /\ UNCHANGED args

\* A call runs in the first process that runs none.
Free(p) == pc[p] \in {"idle", "returned", "raised"}
Callable(p) == Free(p) /\ \A q \in Procs : q < p => ~Free(q)

(***************************************************************************)
(* gp_alerts_to_db.plugin, lines 47-236.                                   *)
(***************************************************************************)
\* The framework calls plugin on an alert.
Plugin(p, meta, fl) ==
    /\ Callable(p)
    /\ n' = n + 1
    /\ Goto(p, "bundle")
    /\ alertMeta' = [alertMeta EXCEPT ![p] = meta]
    /\ alertFiles' = [alertFiles EXCEPT ![p] = fl]
    /\ alertDir' = [alertDir EXCEPT ![p] = <<>>]
    /\ alertDict' = [alertDict EXCEPT ![p] = EmptyDict]
    /\ err' = [err EXCEPT ![p] = "none"]
    /\ UNCHANGED <<pass, rows, dbVars, fsVars, settings>>

\* lines 66-119
BundleAlertData(p) ==
    /\ pc[p] = "bundle"
    /\ \E r \in {Bundle(alertMeta[p], alertFiles[p])} :
          IF r.err # "none" THEN Raise(p, r.err)
          ELSE /\ Goto(p, "create_table")
               /\ alertDict' = [alertDict EXCEPT ![p] = r.d]
               /\ UNCHANGED <<args, err, pass, rows>>
    /\ UNCHANGED <<dbVars, fsVars, settings, n>>

\* lines 121-161: CREATE TABLE IF NOT EXISTS `alerts`
CreateTable(p) ==
    /\ pc[p] = "create_table"
    /\ Goto(p, "create_view")
    /\ tableExists' = TRUE
    /\ executed' = [executed EXCEPT !.table = @ + 1]
    /\ UNCHANGED <<args, locals, alerts, viewExists, fsVars, settings, n>>

\* lines 163-218: CREATE OR REPLACE VIEW `events`
CreateView(p) ==
    /\ pc[p] = "create_view"
    /\ Goto(p, "insert")
    /\ viewExists' = TRUE
    /\ executed' = [executed EXCEPT !.view = @ + 1]
    /\ UNCHANGED <<args, locals, alerts, tableExists, fsVars, settings, n>>

\* The export goes on with the first pass from the i-th on that is
\* enabled, and returns, and plugin with it, when there is none.
Enter(p, i) ==
    \E j \in {NextPass(i, settings)} :
        IF j > Len(Passes) THEN Return(p)
        ELSE /\ Goto(p, "exists")
             /\ pass' = [pass EXCEPT ![p] = j]
             /\ rows' = [rows EXCEPT ![p] = <<>>]
             /\ alertMeta' = [alertMeta EXCEPT ![p] = <<>>]
             /\ alertFiles' = [alertFiles EXCEPT ![p] = <<>>]
             /\ alertDict' = [alertDict EXCEPT ![p] = EmptyDict]
             /\ UNCHANGED <<alertDir, err>>

\* lines 220-231, and the export called at line 233 up to its first test
\* of a directory.
Insert(p) ==
    /\ pc[p] = "insert"
    /\ alerts' = InsertReplace(alerts, RowOf(alertDict[p]))
    /\ executed' = [executed EXCEPT !.insert = @ + 1]
    /\ Enter(p, 1)
    /\ UNCHANGED <<tableExists, viewExists, fsVars, settings, n>>

\* lines 293-295: the directory of the pass does not exist, the pass is
\* skipped.
DirExists(p) ==
    /\ pc[p] = "exists"
    /\ IF PassDirExists(Passes[pass[p]], dirs, links)
       THEN /\ Goto(p, "read_events")
            /\ UNCHANGED <<args, locals>>
       ELSE Enter(p, pass[p] + 1)
    /\ UNCHANGED <<dbVars, fsVars, settings, n>>

\* The process goes on to the statement `to`.
Go(p, to) == Goto(p, to) /\ UNCHANGED <<args, locals>>

\* A SELECT: the rows it returns, one of the results the statement can
\* give, are held until they are written.
Read(p, from, to, results) ==
    /\ pc[p] = from
    /\ Goto(p, to)
    /\ \E result \in results : rows' = [rows EXCEPT ![p] = result]
    /\ executed' = [executed EXCEPT !.read = @ + 1]
    /\ UNCHANGED <<args, alertDict, err, pass, alerts, tableExists, viewExists,
                   fsVars, settings, n>>
\* open(path, 'w'): the file is made, or emptied.
Open(p, from, to, path) ==
    /\ pc[p] = from
    /\ Go(p, to)
    /\ files' = Put(files, path, <<>>)
    /\ UNCHANGED <<dbVars, dirs, links, settings, n>>
\* myFile.write(text): a text longer than the buffer of the file object
\* reaches the file, from its start, and the close that follows changes
\* nothing; a shorter one stays in the buffer until the close.
Write(p, from, close, path, fmt, next) ==
    /\ pc[p] = from
    /\ \/ /\ files' = Put(files, path, Over(Rendered(fmt, rows[p]), files[path]))
          /\ next
       \/ /\ files' = files
          /\ Go(p, close)
    /\ UNCHANGED <<dbVars, dirs, links, settings, n>>
\* myFile.close(): the text in the buffer reaches the file, from its
\* start.
Close(p, from, path, fmt, next) ==
    /\ pc[p] = from
    /\ files' = Put(files, path, Over(Rendered(fmt, rows[p]), files[path]))
    /\ next
    /\ UNCHANGED <<dbVars, dirs, links, settings, n>>

\* lines 301-309
ReadEvents(p) ==
    Read(p, "read_events", "events_csv_open", EventsQuery(alerts, Passes[pass[p]]))
\* lines 310-318
OpenEventsCsv(p) ==
    Open(p, "events_csv_open", "events_csv_write", EventsCsv(Passes[pass[p]]))
\* line 319
WriteEventsCsv(p) ==
    Write(p, "events_csv_write", "events_csv_close", EventsCsv(Passes[pass[p]]), "csv",
          Go(p, "events_txt_open"))
\* line 320
CloseEventsCsv(p) ==
    Close(p, "events_csv_close", EventsCsv(Passes[pass[p]]), "csv", Go(p, "events_txt_open"))
\* line 321
OpenEventsTxt(p) ==
    Open(p, "events_txt_open", "events_txt_write", EventsTxt(Passes[pass[p]]))
\* line 322
WriteEventsTxt(p) ==
    Write(p, "events_txt_write", "events_txt_close", EventsTxt(Passes[pass[p]]), "table",
          Go(p, "read_alerts"))
\* line 323
CloseEventsTxt(p) ==
    Close(p, "events_txt_close", EventsTxt(Passes[pass[p]]), "table", Go(p, "read_alerts"))
\* lines 326-334
ReadAlerts(p) ==
    Read(p, "read_alerts", "alerts_csv_open", AlertsQuery(alerts, Passes[pass[p]]))
\* lines 335-343
OpenAlertsCsv(p) ==
    Open(p, "alerts_csv_open", "alerts_csv_write", AlertsCsv(Passes[pass[p]]))
\* line 344
WriteAlertsCsv(p) ==
    Write(p, "alerts_csv_write", "alerts_csv_close", AlertsCsv(Passes[pass[p]]), "csv",
          Go(p, "alerts_txt_open"))
\* line 345
CloseAlertsCsv(p) ==
    Close(p, "alerts_csv_close", AlertsCsv(Passes[pass[p]]), "csv", Go(p, "alerts_txt_open"))
\* line 346
OpenAlertsTxt(p) ==
    Open(p, "alerts_txt_open", "alerts_txt_write", AlertsTxt(Passes[pass[p]]))
\* line 347, and the loops up to the next test of a directory.
WriteAlertsTxt(p) ==
    Write(p, "alerts_txt_write", "alerts_txt_close", AlertsTxt(Passes[pass[p]]), "table",
          Enter(p, pass[p] + 1))
\* line 348, and the loops up to the next test of a directory.
CloseAlertsTxt(p) ==
    Close(p, "alerts_txt_close", AlertsTxt(Passes[pass[p]]), "table", Enter(p, pass[p] + 1))

(***************************************************************************)
(* gp_symlink_events_to_significance_folders.plugin, lines 31-78.          *)
(***************************************************************************)
\* The framework calls the plugin on the directory of an alert.
SymlinkPlugin(p, meta, dir) ==
    /\ Callable(p)
    /\ n' = n + 1
    /\ Goto(p, "ls_exists")
    /\ alertMeta' = [alertMeta EXCEPT ![p] = meta]
    /\ alertFiles' = [alertFiles EXCEPT ![p] = <<>>]
    /\ alertDir' = [alertDir EXCEPT ![p] = StripSlash(dir)]
    /\ alertDict' = [alertDict EXCEPT ![p] = EmptyDict]
    /\ err' = [err EXCEPT ![p] = "none"]
    /\ UNCHANGED <<pass, rows, dbVars, fsVars, settings>>

\* lines 64-73 up to the test of dest, or to the return.
Decide(p) ==
    IF Dest(alertMeta[p], alertDir[p]) = "" THEN Return(p)
    ELSE Go(p, "dest_exists")

\* The directory of significance the process is at: ls, lines 60-61, or
\* hs, lines 62-63.
AtLow(p) == pc[p] \in {"ls_exists", "ls_head_exists", "ls_mkdir_head", "ls_mkdir"}
SigDir(p) == IF AtLow(p) THEN LowDir(alertDir[p]) ELSE HighDir(alertDir[p])
Label(p, at) == (IF AtLow(p) THEN "ls_" ELSE "hs_") \o at
\* The directory exists or is made: on to hs after ls, to line 66 after hs.
Made(p) == IF AtLow(p) THEN Go(p, "hs_exists") ELSE Decide(p)

\* lines 60 and 62: os.path.exists(ls), os.path.exists(hs)
SigDirExists(p) ==
    /\ pc[p] \in {"ls_exists", "hs_exists"}
    /\ IF PathExists(SigDir(p), dirs, links) THEN Made(p)
       ELSE Go(p, Label(p, "head_exists"))
    /\ UNCHANGED <<dbVars, fsVars, settings, n>>
\* lines 61 and 63, in os.makedirs: the test of the parent.
HeadExists(p) ==
    /\ pc[p] \in {"ls_head_exists", "hs_head_exists"}
    /\ Go(p, Label(p, IF PathExists(ParentDir(alertDir[p]), dirs, links)
                      THEN "mkdir" ELSE "mkdir_head"))
    /\ UNCHANGED <<dbVars, fsVars, settings, n>>
\* lines 61 and 63, in os.makedirs: the mkdir the call is at.  That of
\* the parent comes first where the test found none, and its
\* FileExistsError is passed over; the parent of the directory of an
\* event is there in every call on an alert directory that exists.  Then
\* that of the directory.  The download directory, the parent of the
\* parent, exists.
Mkdir(p) ==
    /\ pc[p] \in {"ls_mkdir_head", "hs_mkdir_head", "ls_mkdir", "hs_mkdir"}
    /\ IF pc[p] \in {"ls_mkdir_head", "hs_mkdir_head"}
       THEN /\ dirs' = IF Entry(ParentDir(alertDir[p]), dirs, links) THEN dirs
                       ELSE dirs \cup {ParentDir(alertDir[p])}
            /\ Go(p, Label(p, "mkdir"))
       ELSE IF Entry(SigDir(p), dirs, links)
       THEN Raise(p, "FileExistsError") /\ UNCHANGED dirs
       ELSE IF ~PathExists(ParentDir(alertDir[p]), dirs, links)
       THEN Raise(p, "FileNotFoundError") /\ UNCHANGED dirs
       ELSE /\ dirs' = dirs \cup {SigDir(p)}
            /\ Made(p)
    /\ UNCHANGED <<dbVars, links, files, settings, n>>
\* line 74
DestExists(p) ==
    /\ pc[p] = "dest_exists"
    /\ IF PathExists(Dest(alertMeta[p], alertDir[p]), dirs, links) THEN Return(p)
       ELSE Go(p, "symlink")
    /\ UNCHANGED <<dbVars, fsVars, settings, n>>
\* line 75: os.symlink(eventDir, dest)
Symlink(p) ==
    /\ pc[p] = "symlink"
    /\ \E dest \in {Dest(alertMeta[p], alertDir[p])} :
          IF Entry(dest, dirs, links)
          THEN Raise(p, "FileExistsError") /\ UNCHANGED links
          ELSE /\ links' = Put(links, dest, EventDir(alertDir[p]))
               /\ Return(p)
    /\ UNCHANGED <<dbVars, dirs, files, settings, n>>

\* One statement of a call of gp_alerts_to_db.plugin up to the test of a
\* directory of the export.
StepTable(p) ==
    \/ BundleAlertData(p)
    \/ CreateTable(p)
    \/ CreateView(p)
    \/ Insert(p)
    \/ DirExists(p)
\* One statement of a call of either plugin.
Step(p) ==
    \/ StepTable(p)
    \/ ReadEvents(p)
    \/ OpenEventsCsv(p)
    \/ WriteEventsCsv(p)
    \/ CloseEventsCsv(p)
    \/ OpenEventsTxt(p)
    \/ WriteEventsTxt(p)
    \/ CloseEventsTxt(p)
    \/ ReadAlerts(p)
    \/ OpenAlertsCsv(p)
    \/ WriteAlertsCsv(p)
    \/ CloseAlertsCsv(p)
    \/ OpenAlertsTxt(p)
    \/ WriteAlertsTxt(p)
    \/ CloseAlertsTxt(p)
    \/ SigDirExists(p)
    \/ HeadExists(p)
    \/ Mkdir(p)
    \/ DestExists(p)
    \/ Symlink(p)

(***************************************************************************)
(* The metadata documents the bundling is run on: every document of at     *)
(* most MaxFields fields drawn from PoolSeq, in every iteration order.     *)
(* Names that differ only in case occur within a section (event time and   *)
(* Time), and one lower-cased key is written from two sections (ALERT and  *)
(* event significant, event class_bns and classification BNS, EXTRA        *)
(* creator and HEADER CREATOR).                                            *)
(***************************************************************************)
MaxFields == 3

Fld(sec, k, v) == [sec |-> sec, k |-> k, v |-> v]

PoolSeq ==
    <<Fld("ALERT", "time_created", Stamp("Z", 30, 0)),
     Fld("ALERT", "time_created", Stamp("Z", SecondsPerDay + 60, 0)),
     Fld("ALERT", "time_created", Str("yesterday")),
     Fld("ALERT", "significant", Bool(FALSE)),
     Fld("ALERT", "tags", List(<<Str("EM_READY")>>)),
     Fld("ALERT", "urls", Dict(<< <<"gracedb", Str("https://gracedb")>> >>)),
     Fld("event", "time", Stamp("fZ", 0, 0)),
     Fld("event", "time", Stamp("fZ", 0, 500000)),
     Fld("event", "time", Stamp("fZ", 60, 0)),
     Fld("event", "time", Stamp("Z", 0, 0)),
     Fld("event", "Time", Str("noon")),
     Fld("event", "significant", Bool(TRUE)),
     Fld("event", "significant", Bool(FALSE)),
     Fld("event", "far", Num(1, 10 * SecondsPerDay)),
     Fld("event", "FAR", Num(0, 1)),
     Fld("event", "class_bns", Num(1, 2)),
     Fld("event", "instruments", List(<<Str("H1"), Str("L1")>>)),
     Fld("classification", "BNS", Num(9, 10)),
     Fld("classification", "bns", Num(1, 10)),
     Fld("classification", "scores", List(<<Num(1, 2)>>)),
     Fld("properties", "HasNS", Num(1, 1)),
     Fld("EXTRA", "central coordinate",
         Dict(<< <<"equatorial", Words(<<"194.30", "-17.86">>)>> >>)),
     Fld("EXTRA", "area90", Num(100, 1)),
     Fld("EXTRA", "Area90", Num(200, 1)),
     Fld("EXTRA", "creator", Str("gocart")),
     Fld("EXTRA", "regions", List(<<Str("north")>>)),
     Fld("HEADER", "CREATOR", Str("BAYESTAR")),
     Fld("HEADER", "creator", Str("someone")),
     Fld("HEADER", "DISTMEAN", Num(40, 1)),
     Fld("HEADER", "DistMean", Num(50, 1)),
     Fld("HEADER", "OBJECT", Str("G1")),
     Fld("HEADER", "LOGBCI", Dict(<< <<"value", Num(1, 1)>> >>)),
     Fld("HEADER", "DISTSTD", List(<<Num(3, 1)>>)),
     Fld("FILES", "a", Str(".fits")),
     Fld("FILES", "b", Str(".json")),
     Fld("FILES", "c", Str(".fits"))>>


\* A dict holds a key once.
WellKeyed(S) == \A x, y \in S : (x.sec = y.sec /\ x.k = y.k) => x = y

\* The increasing sequences of at most k places of the pool.
RECURSIVE IndexSeqs(_)
IndexSeqs(k) ==
    IF k = 0 THEN {<<>>}
    ELSE LET prev == IndexSeqs(k - 1)
         IN prev \cup {Append(p[1], p[2]) : p \in {q \in prev \X (1..Len(PoolSeq)) :
                          /\ Len(q[1]) = k - 1
                          /\ (k > 1 => q[1][k - 1] < q[2])}}
FieldsAt(I) == {PoolSeq[I[j]] : j \in 1..Len(I)}

\* The orders a set of fields can be iterated in, as sequences of items.
RECURSIVE Orders(_)
Orders(S) ==
    IF S = {} THEN {<<>>}
    ELSE UNION {{<< <<x.k, x.v>> >> \o s : s \in Orders(S \ {x})} : x \in S}

Of(S, sec) == {x \in S : x.sec = sec}

Nested(k, items) == IF items = <<>> THEN <<>> ELSE << <<k, Dict(items)>> >>

\* The document with the given items of each section.
MakeMeta(a, e, c, p, x, h) ==
    LET ev == e \o Nested("classification", c) \o Nested("properties", p)
    IN << <<"ALERT", Dict(a \o Nested("event", ev))>> >> \o Nested("EXTRA", x)
       \o Nested("HEADER", h)

RECURSIVE MakeFiles(_)
MakeFiles(f) ==
    IF f = <<>> THEN <<>>
    ELSE <<[root |-> Head(f)[1], ext |-> Head(f)[2].v]>> \o MakeFiles(Tail(f))


(***************************************************************************)
(* The bundling alone, on the documents above.                             *)
(***************************************************************************)
InitFlat ==
    /\ NoCall
    /\ dirs = {}
    /\ settings = [parse_mock_events |-> FALSE, parse_real_events |-> FALSE]

\* plugin is called on a document of the pool.
CallFlat(p) ==
    /\ n = 0
    /\ \E I \in IndexSeqs(MaxFields) :
         /\ WellKeyed(FieldsAt(I))
         /\ \E a \in Orders(Of(FieldsAt(I), "ALERT")), e \in Orders(Of(FieldsAt(I), "event")),
               c \in Orders(Of(FieldsAt(I), "classification")),
               r \in Orders(Of(FieldsAt(I), "properties")),
               x \in Orders(Of(FieldsAt(I), "EXTRA")), h \in Orders(Of(FieldsAt(I), "HEADER")),
               f \in Orders(Of(FieldsAt(I), "FILES")) :
                 Plugin(p, MakeMeta(a, e, c, r, x, h), MakeFiles(f))

NextFlat == \E p \in Procs : CallFlat(p) \/ BundleAlertData(p)

SpecFlat == InitFlat /\ [][NextFlat]_vars

(***************************************************************************)
(* The two plugins on the alerts the framework delivers.                   *)
(***************************************************************************)
\* The calls of the plugins in a behaviour of Spec, and in one of
\* SpecExport.
MaxAlerts == 3
MaxExports == 2

SuperEvents == {"S230518h", "MS230518a"}
AlertTimes == {60, 120}

\* The document of an alert.  A retraction holds no event and no sky map;
\* a "high" alert is significant and holds the FITS header, a "low" one is
\* not significant and holds none; "nocentre" is a low one whose EXTRA
\* lacks the central coordinate, "noequatorial" one whose central
\* coordinate lacks the equatorial.
EventOf(kind) ==
    Dict(<< <<"significant", Bool(kind = "high")>>,
            <<"time", Stamp("fZ", 0, 0)>>,
            <<"far", Num(1, IF kind = "high" THEN 10 * SecondsPerDay ELSE 10800)>>,
            <<"group", Str("CBC")>>,
            <<"pipeline", Str("gstlal")>>,
            <<"search", Str("AllSky")>>,
            <<"instruments", List(<<Str("H1"), Str("L1")>>)>>,
            <<"classification",
              Dict(<< <<"BNS", Num(IF kind = "high" THEN 9 ELSE 1, 10)>>,
                      <<"Terrestrial", Num(IF kind = "high" THEN 1 ELSE 9, 10)>> >>)>>,
            <<"properties",
              Dict(<< <<"HasNS", Num(1, 1)>>, <<"HasRemnant", Num(1, 1)>> >>)>> >>)
AlertDoc(id, at, kind) ==
    << <<"ALERT",
         Dict(<< <<"superevent_id", Str(id)>>,
                 <<"time_created", Stamp("Z", at, 0)>>,
                 <<"alert_type", Str(IF kind = "retraction" THEN "RETRACTION" ELSE "INITIAL")>>,
                 <<"urls", Dict(<< <<"gracedb", Str("https://gracedb")>> >>)>>,
                 <<"event", IF kind = "retraction" THEN NoneVal ELSE EventOf(kind)>> >>)>> >>
    \o (IF kind = "retraction" THEN <<>> ELSE << <<"EXTRA",
              Dict(<< <<"area90", Num(IF kind = "high" THEN 100 ELSE 900, 1)>> >>
                   \o (IF kind = "nocentre" THEN <<>>
                       ELSE << <<"central coordinate",
                                 Dict(<< <<IF kind = "noequatorial" THEN "galactic"
                                           ELSE "equatorial",
                                           Words(<<"194.30", "-17.86">>)>> >>)>> >>))>> >>)
    \o (IF kind = "high" THEN << <<"HEADER",
              Dict(<< <<"CREATOR", Str("BAYESTAR")>>, <<"OBJECT", Str("G1")>>,
                      <<"DISTMEAN", Num(40, 1)>>, <<"DISTSTD", Num(3, 1)>>,
                      <<"MJD-OBS", Num(60082, 1)>> >>)>> >> ELSE <<>>)
FilesOfAlert(kind) ==
    IF kind = "retraction" THEN <<[root |-> "meta", ext |-> ".yaml"]>>
    ELSE <<[root |-> "meta", ext |-> ".yaml"], [root |-> "bayestar", ext |-> ".fits"]>>

AlertKinds == {"high", "low", "retraction"}


\* The directory of an alert of a superevent: mock events are kept apart.
AlertDirOf(id) ==
    <<"lvk", IF Like(Str(id), "M") THEN "mockevents" ELSE "superevents", id, "initial_alert">>

\* Superevents are parsed, mock events are not.  gp_alerts_to_db is run
\* on alert directories that are kept outside the download directory
\* (main, lines 356-411, takes any directory), which holds no directory
\* of superevents: every pass of the export is skipped at its test.
Init ==
    /\ NoCall
    /\ dirs = {}
    /\ settings = [parse_mock_events |-> FALSE, parse_real_events |-> TRUE]

\* The alerts of a superevent: a significant one, one that is not and a
\* retraction at each time.
Deliver(p) ==
    /\ n < MaxAlerts
    /\ \E at \in AlertTimes, kind \in AlertKinds :
          Plugin(p, AlertDoc("S230518h", at, kind), FilesOfAlert(kind))

\* An alert whose EXTRA lacks the central coordinate, or the equatorial
\* of it.
DeliverMalformed(p) ==
    /\ n < MaxAlerts
    /\ \E kind \in {"nocentre", "noequatorial"} :
          Plugin(p, AlertDoc("S230518h", 60, kind), FilesOfAlert(kind))

\* The statements after the test of a directory are not met.
Next == \E p \in Procs : Deliver(p) \/ DeliverMalformed(p) \/ StepTable(p)

Spec == Init /\ [][Next]_vars

\* The directories of the passes of the export.
AllDirs == {DirOf(Passes[i]) : i \in 1..Len(Passes)}
\* The directories the framework has made when it calls a plugin on an
\* alert of the superevent: that of the alert, in that of the superevent,
\* in that of its kind.
AlertDirs(id) ==
    {PathOf(AlertDirOf(id)), EventDir(AlertDirOf(id)), ParentDir(AlertDirOf(id))}
\* The directories of the alerts of the superevents.
EventDirs == UNION {AlertDirs(id) : id \in SuperEvents}
\* Every directory but the one of the superevents of low significance.
NoLowDirs == (AllDirs \ {download_dir \o "/superevents/_low_significance"}) \cup EventDirs

\* Superevents are parsed or nothing is, mock events are not; all the
\* directories of the export exist but the one of the superevents of low
\* significance, or those of the alerts alone do.
InitExport ==
    /\ NoCall
    /\ dirs \in {NoLowDirs, EventDirs}
    /\ settings \in [parse_mock_events : {FALSE}, parse_real_events : BOOLEAN]

\* An alert of any superevent, significant or not, all of one time.
DeliverOne(p) ==
    /\ n < MaxExports
    /\ \E id \in SuperEvents, kind \in {"high", "low"} :
          Plugin(p, AlertDoc(id, 60, kind), FilesOfAlert(kind))

\* The directory of an alert of any superevent, significant or a
\* retraction.
DeliverOneDir(p) ==
    /\ n < MaxExports
    /\ \E id \in SuperEvents, kind \in {"high", "retraction"} :
          SymlinkPlugin(p, AlertDoc(id, 60, kind), AlertDirOf(id))

NextExport == \E p \in Procs : DeliverOne(p) \/ DeliverOneDir(p) \/ Step(p)

SpecExport == InitExport /\ [][NextExport]_vars

(***************************************************************************)
(* The bundling: claims C6 to C9, checked under SpecFlat.                  *)
(***************************************************************************)
\* The process has run lines 66-119 on its document.
Bundled(p) == pc[p] \in {"create_table", "raised"}
\* The record at line 95, before the cleaning (no exception raised).
BeforeCleaning(meta) == BundleHeader(meta, BundleExtra(meta, BundleAlert(meta)).d)

\* time_created and time are both in the record when the cleaning starts.
BothTimes(p) == LET pre == BeforeCleaning(alertMeta[p])
                IN "time_created" \in DOMAIN pre /\ "time" \in DOMAIN pre
BothParse(p) == LET pre == BeforeCleaning(alertMeta[p])
                IN Parses(pre["time_created"], "Z") /\ Parses(pre["time"], "fZ")

\* C6: with time_created and time both in the record, alert_delta_sec is
\* set exactly when both parse and is then the absolute difference of the
\* two instants in whole seconds; time is removed in both cases.
C6_DeltaIsAbsoluteDifference ==
    \A p \in Procs :
        (pc[p] = "create_table" /\ BothTimes(p)) =>
            LET pre == BeforeCleaning(alertMeta[p])
            IN /\ "time" \notin DOMAIN alertDict[p]
               /\ IF BothParse(p)
                  THEN /\ "alert_delta_sec" \in DOMAIN alertDict[p]
                       /\ alertDict[p]["alert_delta_sec"] =
                              Num(DeltaAbsSeconds(pre["time_created"], pre["time"]), 1)
                  ELSE "alert_delta_sec" \notin DOMAIN alertDict[p]

\* C7: no value of the bundled record is a list or a mapping.
C7_NoNestedValue ==
    \A p \in Procs :
        Bundled(p) => \A k \in DOMAIN alertDict[p] :
                          ~IsList(alertDict[p][k]) /\ ~IsDict(alertDict[p][k])

\* Every iteration order of a dict's items, at every depth.
InsertAt(s, j, x) == SubSeq(s, 1, j - 1) \o <<x>> \o SubSeq(s, j, Len(s))
RECURSIVE ReorderItems(_)
ReorderItems(items) ==
    IF items = <<>> THEN {<<>>}
    ELSE LET k == Head(items)[1]
             v == Head(items)[2]
             vs == IF IsDict(v) THEN {Dict(s) : s \in ReorderItems(v.v)} ELSE {v}
         IN UNION {{InsertAt(rest, j, <<k, v2>>) : j \in 1..(Len(rest) + 1), v2 \in vs} :
                   rest \in ReorderItems(Tail(items))}

\* Two fields of the section that its loop copies, of names that differ
\* only in letter case.
CaseClash(items, mode) ==
    \E i, j \in 1..Len(items) :
        /\ i # j
        /\ Admit(mode, items[i][1], items[i][2])
        /\ Admit(mode, items[j][1], items[j][2])
        /\ Lower(items[i][1]) = Lower(items[j][1])
\* No section of the document holds two such fields.
CaseDistinct(meta) ==
    LET alert == Get(meta, "ALERT").v
        ev == SubItems(alert, "event")
    IN /\ ~CaseClash(alert, "ALERT")
       /\ ~CaseClash(ev, "event")
       /\ ~CaseClash(SubItems(ev, "classification"), "classification")
       /\ ~CaseClash(SubItems(ev, "properties"), "properties")
       /\ ~CaseClash(SubItems(meta, "EXTRA"), "EXTRA")
       /\ ~CaseClash(SubItems(meta, "HEADER"), "HEADER")

SameOutcome(p, meta) == Bundle(meta, alertFiles[p]) = [d |-> alertDict[p], err |-> err[p]]

\* C8 as stated: the bundled record is the same in every iteration order
\* of the document's fields, names that differ only in case included.
C8_OrderIndependent ==
    \A p \in Procs :
        Bundled(p) => \A m \in ReorderItems(alertMeta[p]) : SameOutcome(p, m)

\* C8 amended: the bundled record is the same in every iteration order
\* of a document no section of which holds two copied fields whose names
\* differ only in letter case, a key that is written from several
\* sections included.
C8_OrderIndependentCaseDistinct ==
    \A p \in Procs :
        (Bundled(p) /\ CaseDistinct(alertMeta[p])) =>
            \A m \in ReorderItems(alertMeta[p]) : SameOutcome(p, m)

\* ALERT and its event both hold significant, with different values, and
\* the fields of ALERT can be iterated in another order: the record holds
\* the value of the event.
C8_Witness ==
    \E p \in Procs :
        /\ pc[p] = "create_table"
        /\ CaseDistinct(alertMeta[p])
        /\ \E m \in ReorderItems(alertMeta[p]) : m # alertMeta[p]
        /\ LET alert == Get(alertMeta[p], "ALERT").v
           IN /\ Has(alert, "significant") /\ ~Truthy(Get(alert, "significant"))
              /\ Has(SubItems(alert, "event"), "significant")
              /\ Truthy(Get(SubItems(alert, "event"), "significant"))
        /\ alertDict[p]["significant"] = Num(1, 1)

HeaderItems(p) == SubItems(alertMeta[p], "HEADER")
Scalar(v) == ~IsDict(v) /\ ~IsList(v)
\* The record holds the field under its lower-cased name.
Copied(p, k, v) == Lower(k) \in DOMAIN alertDict[p] /\ alertDict[p][Lower(k)] = v
\* The only HEADER field of its lower-cased name.
Alone(p, i) == \A j \in 1..Len(HeaderItems(p)) :
                   Lower(HeaderItems(p)[j][1]) = Lower(HeaderItems(p)[i][1]) => j = i

\* C9 as stated: a scalar HEADER field is copied if and only if its name
\* is in the allow-list when compared without regard to case.
C9_AllowListAnyCase ==
    \A p \in Procs :
        pc[p] = "create_table" =>
            \A i \in 1..Len(HeaderItems(p)) :
                LET k == HeaderItems(p)[i][1]
                    v == HeaderItems(p)[i][2]
                IN (Scalar(v) /\ Alone(p, i)) =>
                       (Copied(p, k, v) <=> \E a \in allowList : Lower(a) = Lower(k))

\* C9 amended: a scalar HEADER field is copied if and only if its name is
\* one of the allow-list's names exactly, in upper case.
C9_AllowListExactCase ==
    \A p \in Procs :
        pc[p] = "create_table" =>
            \A i \in 1..Len(HeaderItems(p)) :
                LET k == HeaderItems(p)[i][1]
                    v == HeaderItems(p)[i][2]
                IN Scalar(v) => (Copied(p, k, v) <=> k \in allowList)

C9_Witness ==
    \E p \in Procs :
        /\ pc[p] = "create_table"
        /\ Has(HeaderItems(p), "DISTMEAN") /\ Has(HeaderItems(p), "creator")
        /\ DOMAIN alertDict[p] = {"distmean"}

(***************************************************************************)
(* The table and the view: claims C1, C2, C3 and C10, checked under Spec.  *)
(***************************************************************************)
KeyOf(r) == <<r["superevent_id"], r["alert_time"], r["alert_type"]>>

\* C1: the table holds at most one row per (superevent_id, alert_time,
\* alert_type), and the insert of a call leaves exactly one row of the
\* call's triple, which holds the values of that call in every column,
\* whatever row of the triple was stored before and whatever the other
\* call does.
C1_OneRowPerKey ==
    [][/\ \A i, j \in 1..Len(alerts') : KeyOf(alerts'[i]) = KeyOf(alerts'[j]) => i = j
       /\ \A p \in Procs :
             (pc[p] = "insert" /\ pc'[p] # "insert") =>
                 \E i \in 1..Len(alerts') :
                     /\ alerts'[i] = RowOf(alertDict[p])
                     /\ \A j \in 1..Len(alerts') :
                           KeyOf(alerts'[j]) = KeyOf(RowOf(alertDict[p])) => j = i]_vars

\* Two inserts have left one row: the second was of the triple of the first.
C1_Witness ==
    /\ executed.insert = 2
    /\ Len(alerts) = 1
    /\ alerts[1]["distmean"] = NULL

RowsOfEvent(id) == {i \in 1..Len(alerts) : alerts[i]["superevent_id"] = Str(id)}
NonRetractions(id) == {i \in RowsOfEvent(id) : alerts[i]["alert_type"] # Str("RETRACTION")}
\* The rows of the view, as pairs, of a superevent.
ViewRowsOf(id) == {p \in EventPairs(alerts) : alerts[p[1]]["superevent_id"] = Str(id)}

\* C2: a superevent whose alerts are all retractions has no row in the
\* view; one whose latest alert is a retraction of time T1 and whose latest
\* other alert is of an earlier time T0 has a row with latest_alert =
\* RETRACTION, alert_time = T1 and the columns of b from the row of T0.
C2_RetractionView ==
    \A id \in SuperEvents :
        /\ NonRetractions(id) = {} => ViewRowsOf(id) = {}
        /\ \A a \in RowsOfEvent(id) \ NonRetractions(id), b \in NonRetractions(id) :
              (/\ \A j \in RowsOfEvent(id) : At(alerts[j]) <= At(alerts[a])
               /\ \A j \in NonRetractions(id) : At(alerts[j]) <= At(alerts[b])
               /\ At(alerts[b]) < At(alerts[a]))
              => \E k \in ViewRowsOf(id) :
                    LET v == EventRow(alerts, k)
                    IN /\ v["latest_alert"] = Str("RETRACTION")
                       /\ v["alert_time"] = alerts[a]["alert_time"]
                       /\ \A c \in FromB : v[c] = alerts[b][c]

\* The retraction of time 120 was stored first, the significant alert of
\* time 60 after it.
C2_Witness ==
    /\ Len(alerts) = 2
    /\ KeyOf(alerts[1]) = <<Str("S230518h"), Stamp("Z", 120, 0), Str("RETRACTION")>>
    /\ KeyOf(alerts[2]) = <<Str("S230518h"), Stamp("Z", 60, 0), Str("INITIAL")>>
    /\ alerts[2]["significant"] = Num(1, 1)
    /\ Cardinality(EventPairs(alerts)) = 1

\* C3: the view holds exactly one row for each superevent with an alert
\* that is no retraction, and no row for any other.
C3_OneViewRowPerEvent ==
    \A id \in SuperEvents :
        Cardinality(ViewRowsOf(id)) = IF NonRetractions(id) # {} THEN 1 ELSE 0

\* EXTRA is not empty and lacks the central coordinate or its equatorial.
ExtraWithoutCentre(meta) ==
    LET extra == SubItems(meta, "EXTRA")
    IN /\ extra # <<>>
       /\ \/ ~Has(extra, "central coordinate")
          \/ /\ IsDict(Get(extra, "central coordinate"))
             /\ ~Has(Get(extra, "central coordinate").v, "equatorial")

\* C10: a call whose document holds such an EXTRA ends in its first step
\* with a KeyError, a step that leaves the table, the view, the statements
\* executed and the files as they were; the call takes no step after it.
C10_MalformedExtraAborts ==
    [][\A p \in Procs :
          /\ (pc[p] = "bundle" /\ pc'[p] # "bundle" /\ ExtraWithoutCentre(alertMeta[p])) =>
                /\ pc'[p] = "raised"
                /\ err'[p] = "KeyError"
                /\ UNCHANGED <<alerts, tableExists, viewExists, executed, files>>
          /\ (pc[p] = "raised" /\ pc'[p] # "raised") => n' = n + 1]_vars

\* The call was aborted after one that had made the table and the view
\* and stored a row.
C10_Witness ==
    \E p \in Procs :
        /\ pc[p] = "raised"
        /\ err[p] = "KeyError"
        /\ ExtraWithoutCentre(alertMeta[p])
        /\ Len(alerts) = 1
        /\ executed = [table |-> 1, view |-> 1, insert |-> 1, read |-> 0]

(***************************************************************************)
(* The export: claims C4 and C5, checked under SpecExport.                 *)
(***************************************************************************)
\* The rows a file of the low partition must not hold, and of the high one.
Misfiled(q, r) ==
    \/ q.sig = "low" /\ r["significant"] = Num(1, 1)
    \/ q.sig = "high" /\ r["significant"] = Num(0, 1)

\* C4: every file written holds rows of its prefix only, and no file of
\* the low partition holds a row with significant = 1, no file of the high
\* partition a row with significant = 0, the alerts files included.
C4_FilesFilteredBySignificance ==
    \A i \in 1..Len(Passes) : \A f \in FilesOf(Passes[i]) \cap DOMAIN files :
        \A l \in 1..Len(files[f]) : \A k \in 1..Len(files[f][l].rows) :
            /\ Like(files[f][l].rows[k]["superevent_id"], Passes[i].prefix)
            /\ ~Misfiled(Passes[i], files[f][l].rows[k])

\* The statements of gp_alerts_to_db.plugin.
DbLabels ==
    {"bundle", "create_table", "create_view", "insert", "exists", "read_events", "read_alerts"}
    \cup {f \o at : f \in {"events_csv", "events_txt", "alerts_csv", "alerts_txt"},
                    at \in {"_open", "_write", "_close"}}
\* The process takes the step.
Acts(p) == pc'[p] # pc[p] \/ pass'[p] # pass[p]
\* The files the step writes or overwrites.
Written == {f \in DOMAIN files' : f \notin DOMAIN files \/ files'[f] # files[f]}

\* C5: no step of plugin creates a directory.  The test of a directory
\* that does not exist writes no file, raises no error and leads to the
\* test of the next enabled partition, or to the return when there is
\* none.  A file is written only in the partition the writing call is in,
\* whose type is enabled and whose directory exists; no file of a type
\* that is not enabled is ever there.
C5_MissingDirectorySkipped ==
    [][/\ \A p \in Procs :
             (pc[p] \in DbLabels /\ Acts(p)) =>
                /\ dirs' = dirs
                /\ (pc[p] = "exists" /\ ~PathExists(DirOf(Passes[pass[p]]), dirs, links)) =>
                      /\ files' = files
                      /\ pc'[p] # "raised"
                      /\ IF NextPass(pass[p] + 1, settings) > Len(Passes)
                         THEN pc'[p] = "returned"
                         ELSE pc'[p] = "exists" /\ pass'[p] = NextPass(pass[p] + 1, settings)
                /\ \A f \in Written :
                      /\ f \in FilesOf(Passes[pass[p]])
                      /\ settings[Passes[pass[p]].ttype]
                      /\ PathExists(DirOf(Passes[pass[p]]), dirs, links)
       /\ \A i \in 1..Len(Passes) :
             ~settings[Passes[i].ttype] => FilesOf(Passes[i]) \cap DOMAIN files' = {}]_vars

\* Superevents are exported and the directory of low significance is
\* missing: the one call has gone past it and returned, the partition of
\* all and, after the missing one, the high one are written, and nothing
\* is written for the mock events, which are not enabled though their
\* directories exist.
C5_Witness ==
    /\ pc[1] = "returned"
    /\ executed.insert = 1
    /\ settings = [parse_mock_events |-> FALSE, parse_real_events |-> TRUE]
    /\ dirs = NoLowDirs
    /\ (download_dir \o "/superevents/_high_significance/alerts.txt") \in DOMAIN files
    /\ (download_dir \o "/superevents/alerts.csv") \in DOMAIN files
    /\ Cardinality(DOMAIN files) = 8

====
